---------------------------- MODULE Spec2Model ----------------------------
(***************************************************************************)
(* A model of the RIFF/WAVE codec of package wav (src/wav.go) and of the   *)
(* copy pipeline of src/example/main.go:                                   *)
(*                                                                         *)
(*     stream --Unmarshal--> File --Marshal--> bytes --Unmarshal--> File   *)
(*                                                                         *)
(* Streams and buffers are sequences of bytes (0..255).  Go's b[lo:hi] is  *)
(* Slice(b, lo, hi); offsets are 0-based as in the source.  A nil error is *)
(* the empty string, every other error is its message.  A runtime panic is *)
(* recorded in fault and ends the run.                                     *)
(*                                                                         *)
(* The io.Reader is modelled by what its contract allows: a Read of n      *)
(* bytes delivers between 1 and n of the bytes that remain (exactly        *)
(* min(n, remaining) for a reader such as os.File or bytes.Reader,         *)
(* exact = TRUE), (0, io.EOF) when nothing remains, and (0, an I/O error)  *)
(* on the Read call numbered failAt.  A reader that is not exact may also  *)
(* hand over the last bytes together with io.EOF.                          *)
(*                                                                         *)
(* uint32 values are kept below 2^31 by the inputs drawn in Init (TLC      *)
(* integers are 32-bit and TLC stops on overflow); the one place where the *)
(* source wraps, uint16(int(x)), is modelled with % 2^16, and              *)
(* int32(uint32) is computed byte-wise.                                    *)
(***************************************************************************)
EXTENDS Integers, Sequences, FiniteSets, TLC

VARIABLES
    stream,   \* the bytes behind the io.Reader r
    pos,      \* how many of them r has delivered
    exact,    \* r delivers min(n, remaining) on every Read
    failAt,   \* the Read call on which r reports an I/O error (0: never)
    pc,       \* the step the program is at
    pass,     \* 0: File built by a caller, 1: decoding the input, 2: decoding Marshal's output
    file,     \* the File under construction / returned by Unmarshal
    err,      \* the error Unmarshal returned ("" is nil)
    fault,    \* the runtime panic that ended the run ("" is none)
    data,     \* ParseData: local data ([]Sample)
    buf,      \* ParseData: local buf (4 bytes)
    sample,   \* ParseData: loop index sample
    channel,  \* ParseData: loop index channel
    sampleCount, \* ParseData: local sampleCount
    log,      \* history: one record per Read call of the current Unmarshal
    orig,     \* history: the File handed to Marshal
    origErr,  \* history: the error that came with it
    origFrom, \* history: where it came from ("Unmarshal" or "caller")
    out       \* the bytes Marshal returned

vars == <<stream, pos, exact, failAt, pc, pass, file, err, fault, data, buf,
          sample, channel, sampleCount, log, orig, origErr, origFrom, out>>

-----------------------------------------------------------------------------
(* Bounds of the model. *)

\* largest DataChunk.Size (declared byte size) of an input stream
MaxDataSize == 12
\* most channels of an input stream or of a caller-built File
MaxChannels == 2
\* most samples per channel of a caller-built File
MaxBuiltSamples == 2
\* latest Read call on which the reader may report an I/O error
MaxFailAt == 5
\* largest DataChunk.Size of the streams that are damaged or read in pieces
MaxDamagedSize == 4

-----------------------------------------------------------------------------
(* Program constants. *)

RIFF_TAG == 1380533830  \* 0x52494646
WAVE_TAG == 1463899717  \* 0x57415645
fmt_TAG  == 1718449184  \* 0x666d7420
data_TAG == 1684108385  \* 0x64617461

HeaderLen == 12
FmtLen    == 24
DataLen   == 8
SampleBufLen == 4
\* offset of the sample region in Marshal's buffer
DataOffset == 44
\* bytes MarshalData writes per sample
PutWidth == 2

ErrHeaderRead == "fail to read header"
ErrNotRIFF    == "not a valid RIFF file"
ErrNotWAVE    == "not a valid WAVE file"
ErrFmtRead    == "fail to read fmt chunk"
ErrNotFmt     == "not a valid fmt chunk"
ErrDataRead   == "fail to read data chunk header"
ErrNotData    == "not a valid data chunk"
ErrParse      == "fail to parse sample data"
ErrBits       == "unsupported bits per sample"

EOF   == "EOF"
IOErr == "input/output error"

DivideByZero    == "integer divide by zero"
IndexOutOfRange == "index out of range"

-----------------------------------------------------------------------------
(* encoding/binary and the integer conversions, as the source uses them. *)

Min(a, b) == IF a < b THEN a ELSE b

Byte(v, i) == (v \div (256 ^ i)) % 256

\* b[lo:hi]
Slice(b, lo, hi) == SubSeq(b, lo + 1, hi)

Zeros(n) == [i \in 1..n |-> 0]

BigEndianUint32(b) == ((b[1] * 256 + b[2]) * 256 + b[3]) * 256 + b[4]
LittleEndianUint32(b) == b[1] + 256 * (b[2] + 256 * (b[3] + 256 * b[4]))
LittleEndianUint16(b) == b[1] + 256 * b[2]

BigEndianPutUint32(v) == <<Byte(v, 3), Byte(v, 2), Byte(v, 1), Byte(v, 0)>>
LittleEndianPutUint32(v) == <<Byte(v, 0), Byte(v, 1), Byte(v, 2), Byte(v, 3)>>
LittleEndianPutUint16(v) == <<Byte(v, 0), Byte(v, 1)>>

\* int(int8(b))
Int8(b) == IF b >= 128 THEN b - 256 ELSE b
\* int(int16(u))
Int16(u) == IF u >= 32768 THEN u - 65536 ELSE u
\* int(int32(binary.LittleEndian.Uint32(b))), computed without leaving 32 bits
Int32LE(b) == b[1] + 256 * b[2] + 65536 * b[3] + 16777216 * Int8(b[4])
\* uint16(int(x))
Uint16(x) == x % 65536


-----------------------------------------------------------------------------
(* The File value. *)

ZeroHeader == [Id |-> 0, Size |-> 0, Format |-> 0]

ZeroFmtChunk ==
    [ID |-> 0, Size |-> 0, AudioFormat |-> 0, Channel |-> 0, SampleRate |-> 0,
     ByteRate |-> 0, BlockAlign |-> 0, BitsPerSample |-> 0]

\* Data = << >> stands for the nil slice
ZeroDataChunk == [ID |-> 0, Size |-> 0, Data |-> << >>]

\* File{}
ZeroFile == [Header |-> ZeroHeader, FmtChunk |-> ZeroFmtChunk, DataChunk |-> ZeroDataChunk]

-----------------------------------------------------------------------------
(* The io.Reader. *)

\* what r.Read(p) may return for len(p) = n: the byte count and the error
ReadOutcomes(n) ==
    IF failAt = Len(log) + 1
    THEN {[n |-> 0, err |-> IOErr]}
    ELSE IF pos >= Len(stream)
         THEN {[n |-> 0, err |-> EOF]}
         ELSE LET m == Min(n, Len(stream) - pos)
              IN  {[n |-> k, err |-> ""] : k \in IF exact THEN {m} ELSE 1..m}
                  \union IF ~exact /\ m = Len(stream) - pos
                         THEN {[n |-> m, err |-> EOF]}
                         ELSE {}

\* p after r.Read(p) delivered k bytes: the first k bytes are overwritten
Fill(p, k) == [i \in 1..Len(p) |-> IF i <= k THEN stream[pos + i] ELSE p[i]]

-----------------------------------------------------------------------------
(* The chunk decoders: the receiver after the call and the error returned, *)
(* given the receiver before, the buffer after r.Read and r.Read's error.  *)

DecodeHeader(h, b, rerr) ==
    IF rerr # ""
    THEN [chunk |-> h, err |-> ErrHeaderRead]
    ELSE LET h1 == [h EXCEPT !.Id = BigEndianUint32(Slice(b, 0, 4))]
         IN  IF h1.Id # RIFF_TAG
             THEN [chunk |-> h1, err |-> ErrNotRIFF]
             ELSE LET h2 == [h1 EXCEPT !.Size = LittleEndianUint32(Slice(b, 4, 8)),
                                       !.Format = BigEndianUint32(Slice(b, 8, 12))]
                  IN  IF h2.Format # WAVE_TAG
                      THEN [chunk |-> h2, err |-> ErrNotWAVE]
                      ELSE [chunk |-> h2, err |-> rerr]

DecodeFmtChunk(fm, b, rerr) ==
    IF rerr # ""
    THEN [chunk |-> fm, err |-> ErrFmtRead]
    ELSE LET fm1 == [fm EXCEPT !.ID = BigEndianUint32(Slice(b, 0, 4))]
         IN  IF fm1.ID # fmt_TAG
             THEN [chunk |-> fm1, err |-> ErrNotFmt]
             ELSE [chunk |->
                      [fm1 EXCEPT !.Size = LittleEndianUint32(Slice(b, 4, 8)),
                                  !.AudioFormat = LittleEndianUint16(Slice(b, 8, 10)),
                                  !.Channel = LittleEndianUint16(Slice(b, 10, 12)),
                                  !.SampleRate = LittleEndianUint32(Slice(b, 12, 16)),
                                  !.ByteRate = LittleEndianUint32(Slice(b, 16, 20)),
                                  !.BlockAlign = LittleEndianUint16(Slice(b, 20, 22)),
                                  !.BitsPerSample = LittleEndianUint16(Slice(b, 22, 24))],
                   err |-> rerr]

DecodeDataChunk(dat, b, rerr) ==
    IF rerr # ""
    THEN [chunk |-> dat, err |-> ErrDataRead]
    ELSE LET dat1 == [dat EXCEPT !.ID = BigEndianUint32(Slice(b, 0, 4))]
         IN  IF dat1.ID # data_TAG
             THEN [chunk |-> dat1, err |-> ErrNotData]
             ELSE [chunk |-> [dat1 EXCEPT !.Size = LittleEndianUint32(Slice(b, 4, 8))],
                   err |-> rerr]

\* AfterStep without the early return: the next step runs whatever err is
AfterStep_Continue(e, next) == next

\* Unmarshal: "if err != nil { return file, err }" after each step
AfterStep(e, next) == IF e # "" THEN "Unmarshal.return" ELSE next

\* SampleCountOf without the division by the sample width
SampleCountOf_NoWidth(size, ch, bits) == size \div ch

\* ParseData: sampleCount (Go's / truncates; the operands are not negative)
SampleCountOf(size, ch, bits) == (size \div ch) \div (bits \div 8)

\* ParseData: the cases of the switch on BitsPerSample
SupportedBits == {8, 16, 32}

\* ParseData: the value a case of the switch stores
DecodeSample(bits, b) ==
    CASE bits = 8  -> Int8(b[1])
      [] bits = 16 -> Int16(LittleEndianUint16(b))
      [] bits = 32 -> Int32LE(b)

-----------------------------------------------------------------------------
(* Marshal. *)

\* MarshalHeaders with the four tags written little-endian like the numbers
MarshalHeaders_LittleEndianTags(f) ==
    LittleEndianPutUint32(f.Header.Id)
    \o LittleEndianPutUint32(f.Header.Size)
    \o LittleEndianPutUint32(f.Header.Format)
    \o LittleEndianPutUint32(f.FmtChunk.ID)
    \o LittleEndianPutUint32(f.FmtChunk.Size)
    \o LittleEndianPutUint16(f.FmtChunk.AudioFormat)
    \o LittleEndianPutUint16(f.FmtChunk.Channel)
    \o LittleEndianPutUint32(f.FmtChunk.SampleRate)
    \o LittleEndianPutUint32(f.FmtChunk.ByteRate)
    \o LittleEndianPutUint16(f.FmtChunk.BlockAlign)
    \o LittleEndianPutUint16(f.FmtChunk.BitsPerSample)
    \o LittleEndianPutUint32(f.DataChunk.ID)
    \o LittleEndianPutUint32(f.DataChunk.Size)

\* Marshal: the 44 bytes written by the PutUint calls
MarshalHeaders(f) ==
    BigEndianPutUint32(f.Header.Id)
    \o LittleEndianPutUint32(f.Header.Size)
    \o BigEndianPutUint32(f.Header.Format)
    \o BigEndianPutUint32(f.FmtChunk.ID)
    \o LittleEndianPutUint32(f.FmtChunk.Size)
    \o LittleEndianPutUint16(f.FmtChunk.AudioFormat)
    \o LittleEndianPutUint16(f.FmtChunk.Channel)
    \o LittleEndianPutUint32(f.FmtChunk.SampleRate)
    \o LittleEndianPutUint32(f.FmtChunk.ByteRate)
    \o LittleEndianPutUint16(f.FmtChunk.BlockAlign)
    \o LittleEndianPutUint16(f.FmtChunk.BitsPerSample)
    \o BigEndianPutUint32(f.DataChunk.ID)
    \o LittleEndianPutUint32(f.DataChunk.Size)

\* MarshalData: the bytes of one sample
PutSample(x) == LittleEndianPutUint16(Uint16(x))

\* MarshalData's loop from iteration k = sample * len(data) + channel on, with
\* pos = p: the buffer it leaves, or the panic of an out-of-range access
RECURSIVE MarshalDataFrom(_, _, _, _)
MarshalDataFrom(d, b, k, p) ==
    LET s == k \div Len(d)
        c == k % Len(d)
    IN  IF s >= Len(d[1])
        THEN [fault |-> "", buf |-> b]
        ELSE IF p + PutWidth > Len(b) \/ s >= Len(d[c + 1])
             THEN [fault |-> IndexOutOfRange, buf |-> b]
             ELSE LET w == PutSample(d[c + 1][s + 1])
                  IN  MarshalDataFrom(d,
                          [i \in 1..Len(b) |->
                              IF i > p /\ i <= p + PutWidth THEN w[i - p] ELSE b[i]],
                          k + 1, p + PutWidth)

MarshalData(f, b) ==
    IF Len(f.DataChunk.Data) = 0
    THEN [fault |-> IndexOutOfRange, buf |-> b]
    ELSE MarshalDataFrom(f.DataChunk.Data, b, 0, 0)

\* Marshal(file): the bytes returned, or the panic
Marshal(f) ==
    LET n == 4 + 4 + f.Header.Size
    IN  IF n < DataOffset
        THEN [fault |-> IndexOutOfRange, buf |-> << >>]
        ELSE LET r == MarshalData(f, Zeros(n - DataOffset))
             IN  [fault |-> r.fault,
                  buf |-> IF r.fault = "" THEN MarshalHeaders(f) \o r.buf ELSE << >>]

-----------------------------------------------------------------------------
(* The inputs. *)

\* a tag that is none of the four
JunkTag == BigEndianUint32(<<74, 85, 78, 75>>)

\* BitsPerSample values of the inputs: the supported ones, 24, and widths
\* below and between them
BitDepths == {0, 4, 8, 12, 16, 24, 32}

Patterns == {"up", "down"}

\* sample k (from 0) of a payload: 1, 2, 3, ... or -1, -2, -3, ...
PatternValue(pat, k) == IF pat = "up" THEN k + 1 ELSE 0 - (k + 1)

\* bytes per sample of a payload
PayloadWidth(bits) == IF bits \in SupportedBits THEN bits \div 8 ELSE 2

\* n bytes of little-endian two's-complement samples
Payload(pat, bits, n) ==
    LET w == PayloadWidth(bits)
    IN  [i \in 1..n |-> Byte(PatternValue(pat, (i - 1) \div w), (i - 1) % w)]

Tag(good, bad, k) == IF bad = k THEN JunkTag ELSE good

\* a stream laid out as the WAVE format lays it out; tag number bad (1..4) is wrong
StreamOf(bad, hsize, ch, bits, dsize, payload) ==
    LET w == PayloadWidth(bits)
    IN  BigEndianPutUint32(Tag(RIFF_TAG, bad, 1))
        \o LittleEndianPutUint32(hsize)
        \o BigEndianPutUint32(Tag(WAVE_TAG, bad, 2))
        \o BigEndianPutUint32(Tag(fmt_TAG, bad, 3))
        \o LittleEndianPutUint32(16)
        \o LittleEndianPutUint16(1)
        \o LittleEndianPutUint16(ch)
        \o LittleEndianPutUint32(1024)
        \o LittleEndianPutUint32(1024 * ch * w)
        \o LittleEndianPutUint16(ch * w)
        \o LittleEndianPutUint16(bits)
        \o BigEndianPutUint32(Tag(data_TAG, bad, 4))
        \o LittleEndianPutUint32(dsize)
        \o payload

\* a File as a caller builds one: d is the per-channel samples
BuiltFile(hsize, bits, d, n) ==
    LET w == PayloadWidth(bits)
        ch == Len(d)
    IN  [Header |-> [Id |-> RIFF_TAG, Size |-> hsize, Format |-> WAVE_TAG],
         FmtChunk |-> [ID |-> fmt_TAG, Size |-> 16, AudioFormat |-> 1, Channel |-> ch,
                       SampleRate |-> 1024, ByteRate |-> 1024 * ch * w,
                       BlockAlign |-> ch * w, BitsPerSample |-> bits],
         DataChunk |-> [ID |-> data_TAG, Size |-> w * ch * n, Data |-> d]]

BuiltValues == {-1, 2}
BuiltBits == {8, 16, 24, 32}

-----------------------------------------------------------------------------
(* Init. *)

\* Unmarshal(r) is entered: file := File{}
InitDecode(s, ex, fa) ==
    /\ stream = s
    /\ pos = 0
    /\ exact = ex
    /\ failAt = fa
    /\ pc = "Header.Unmarshal"
    /\ pass = 1
    /\ file = ZeroFile
    /\ err = ""
    /\ fault = ""
    /\ data = << >>
    /\ buf = << >>
    /\ sample = 0
    /\ channel = 0
    /\ sampleCount = 0
    /\ log = << >>
    /\ orig = ZeroFile
    /\ origErr = ""
    /\ origFrom = ""
    /\ out = << >>

\* a caller is about to pass a File of its own to Marshal
InitBuilt(f) ==
    /\ stream = << >>
    /\ pos = 0
    /\ exact = TRUE
    /\ failAt = 0
    /\ pc = "built"
    /\ pass = 0
    /\ file = f
    /\ err = ""
    /\ fault = ""
    /\ data = << >>
    /\ buf = << >>
    /\ sample = 0
    /\ channel = 0
    /\ sampleCount = 0
    /\ log = << >>
    /\ orig = ZeroFile
    /\ origErr = ""
    /\ origFrom = ""
    /\ out = << >>

\* streams with the four tags right, read by a reader that delivers in full:
\* the payload may stop short of the declared size or run past it
InitIntact ==
    \E ch \in 0..MaxChannels, bits \in BitDepths, dsize \in 0..MaxDataSize, pat \in Patterns :
      \E plen \in {n \in {0, dsize - 1, dsize, dsize + SampleBufLen} : n >= 0} :
        \E hsize \in {0, 36 + dsize, 36 + plen} :
          InitDecode(StreamOf(0, hsize, ch, bits, dsize, Payload(pat, bits, plen)), TRUE, 0)

\* streams with one wrong tag, cut short, hit by an I/O error, or delivered in pieces
InitDamaged ==
    \E ch \in 1..MaxChannels, bits \in SupportedBits, dsize \in 0..MaxDamagedSize, ex \in BOOLEAN :
      LET s == StreamOf(0, 36 + dsize, ch, bits, dsize, Payload("up", bits, dsize))
      IN  \/ \E bad \in 1..4 :
                InitDecode(StreamOf(bad, 36 + dsize, ch, bits, dsize,
                                    Payload("up", bits, dsize)), ex, 0)
          \/ \E cut \in 0..(Len(s) - 1) : InitDecode(SubSeq(s, 1, cut), ex, 0)
          \/ \E fa \in 1..MaxFailAt : InitDecode(s, ex, fa)
          \/ InitDecode(s, FALSE, 0)

InitCaller ==
    \E ch \in 1..MaxChannels, n \in 0..MaxBuiltSamples, bits \in BuiltBits :
      \E d \in [1..ch -> [1..n -> BuiltValues]] :
        \E hsize \in {0, 36, 36 + PutWidth * ch * n, 36 + PayloadWidth(bits) * ch * n} :
          InitBuilt(BuiltFile(hsize, bits, d, n))

Init == InitIntact \/ InitDamaged \/ InitCaller

-----------------------------------------------------------------------------
(* The steps of Unmarshal. *)

LogEntry(step, want, r, e) ==
    [step |-> step, want |-> want, got |-> r.n, rerr |-> r.err, err |-> e]

ParseLocals == <<data, buf, sample, channel, sampleCount>>
Reader == <<stream, exact, failAt>>
Marshalled == <<orig, origErr, origFrom, out>>

Header_Unmarshal ==
    /\ pc = "Header.Unmarshal"
    /\ \E r \in ReadOutcomes(HeaderLen) :
         LET res == DecodeHeader(file.Header, Fill(Zeros(HeaderLen), r.n), r.err)
         IN  /\ file' = [file EXCEPT !.Header = res.chunk]
             /\ pos' = pos + r.n
             /\ log' = Append(log, LogEntry("Header.Unmarshal", HeaderLen, r, res.err))
             /\ err' = res.err
             /\ pc' = AfterStep(res.err, "FmtChunk.Unmarshal")
    /\ UNCHANGED <<Reader, pass, fault, ParseLocals, Marshalled>>

FmtChunk_Unmarshal ==
    /\ pc = "FmtChunk.Unmarshal"
    /\ \E r \in ReadOutcomes(FmtLen) :
         LET res == DecodeFmtChunk(file.FmtChunk, Fill(Zeros(FmtLen), r.n), r.err)
         IN  /\ file' = [file EXCEPT !.FmtChunk = res.chunk]
             /\ pos' = pos + r.n
             /\ log' = Append(log, LogEntry("FmtChunk.Unmarshal", FmtLen, r, res.err))
             /\ err' = res.err
             /\ pc' = AfterStep(res.err, "DataChunk.Unmarshal")
    /\ UNCHANGED <<Reader, pass, fault, ParseLocals, Marshalled>>

DataChunk_Unmarshal ==
    /\ pc = "DataChunk.Unmarshal"
    /\ \E r \in ReadOutcomes(DataLen) :
         LET res == DecodeDataChunk(file.DataChunk, Fill(Zeros(DataLen), r.n), r.err)
         IN  /\ file' = [file EXCEPT !.DataChunk = res.chunk]
             /\ pos' = pos + r.n
             /\ log' = Append(log, LogEntry("DataChunk.Unmarshal", DataLen, r, res.err))
             /\ err' = res.err
             /\ pc' = AfterStep(res.err, "ParseData")
    /\ UNCHANGED <<Reader, pass, fault, ParseLocals, Marshalled>>

\* ParseData up to its loop: sampleCount, data and buf
ParseData_Begin ==
    /\ pc = "ParseData"
    /\ IF file.FmtChunk.Channel = 0 \/ file.FmtChunk.BitsPerSample \div 8 = 0
       THEN /\ fault' = DivideByZero
            /\ pc' = "ParseData.panic"
            /\ UNCHANGED ParseLocals
       ELSE /\ sampleCount' = SampleCountOf(file.DataChunk.Size, file.FmtChunk.Channel,
                                            file.FmtChunk.BitsPerSample)
            /\ data' = [c \in 1..file.FmtChunk.Channel |-> Zeros(sampleCount')]
            /\ buf' = Zeros(SampleBufLen)
            /\ sample' = 0
            /\ channel' = 0
            /\ pc' = "ParseData.loop"
            /\ UNCHANGED fault
    /\ UNCHANGED <<Reader, pos, pass, file, err, log, Marshalled>>

\* one iteration of ParseData's inner loop
ParseData_Read ==
    /\ pc = "ParseData.loop"
    /\ sample < sampleCount
    /\ \E r \in ReadOutcomes(SampleBufLen) :
         LET b == Fill(buf, r.n)
             e == IF r.err # "" /\ r.err # EOF
                  THEN ErrParse
                  ELSE IF file.FmtChunk.BitsPerSample \in SupportedBits THEN "" ELSE ErrBits
         IN  /\ buf' = b
             /\ pos' = pos + r.n
             /\ log' = Append(log, LogEntry("ParseData", SampleBufLen, r, e))
             /\ IF e # ""
                THEN /\ err' = e
                     /\ pc' = "Unmarshal.return"
                     /\ UNCHANGED <<data, sample, channel>>
                ELSE /\ data' = [data EXCEPT ![channel + 1][sample + 1] =
                                   DecodeSample(file.FmtChunk.BitsPerSample, b)]
                     /\ IF channel + 1 < Len(data)
                        THEN channel' = channel + 1 /\ sample' = sample
                        ELSE channel' = 0 /\ sample' = sample + 1
                     /\ UNCHANGED <<err, pc>>
    /\ UNCHANGED <<Reader, pass, file, fault, sampleCount, Marshalled>>

\* ParseData after its loop: file.DataChunk.Data = data; return err (the outer err, nil)
ParseData_Return ==
    /\ pc = "ParseData.loop"
    /\ sample >= sampleCount
    /\ file' = [file EXCEPT !.DataChunk.Data = data]
    /\ err' = ""
    /\ pc' = "Unmarshal.return"
    /\ UNCHANGED <<Reader, pos, pass, fault, ParseLocals, log, Marshalled>>

-----------------------------------------------------------------------------
(* The callers. *)

\* main: chunk, _ := wav.Unmarshal(file); buf := wav.Marshal(chunk)
\* (or a caller's own File passed to Marshal)
Main_Marshal ==
    /\ \/ pc = "Unmarshal.return" /\ pass = 1
       \/ pc = "built"
    /\ LET m == Marshal(file)
       IN  /\ orig' = file
           /\ origErr' = err
           /\ origFrom' = IF pass = 1 THEN "Unmarshal" ELSE "caller"
           /\ out' = m.buf
           /\ fault' = m.fault
           /\ pc' = IF m.fault # "" THEN "Marshal.panic" ELSE "Marshal.return"
    /\ UNCHANGED <<Reader, pos, pass, file, err, ParseLocals, log>>

\* Unmarshal(bytes.NewReader(buf)) on the bytes Marshal returned
Unmarshal_Again ==
    /\ pc = "Marshal.return"
    /\ stream' = out
    /\ pos' = 0
    /\ exact' = TRUE
    /\ failAt' = 0
    /\ pass' = 2
    /\ file' = ZeroFile
    /\ err' = ""
    /\ log' = << >>
    /\ pc' = "Header.Unmarshal"
    /\ UNCHANGED <<fault, ParseLocals, Marshalled>>

Next ==
    \/ Header_Unmarshal
    \/ FmtChunk_Unmarshal
    \/ DataChunk_Unmarshal
    \/ ParseData_Begin
    \/ ParseData_Read
    \/ ParseData_Return
    \/ Main_Marshal
    \/ Unmarshal_Again

Spec == Init /\ [][Next]_vars

-----------------------------------------------------------------------------
(* Vocabulary of the properties. *)

Bits == file.FmtChunk.BitsPerSample
Channels == file.FmtChunk.Channel
Returned == pc = "Unmarshal.return"

HeaderSteps == {"Header.Unmarshal", "FmtChunk.Unmarshal", "DataChunk.Unmarshal"}

\* the three chunk decoders ran, each on a full prefix, and none failed
HeadersDecoded ==
    /\ Len(log) >= 3
    /\ \A i \in 1..3 : log[i].err = "" /\ log[i].got = log[i].want

\* the reader of the current pass hands over what it is asked for and never fails
FullReader == exact /\ failAt = 0

\* the signed little-endian integer formed by the w bytes at offset off of b
SignedLE(b, off, w) ==
    CASE w = 1 -> IF b[off + 1] >= 128 THEN b[off + 1] - 256 ELSE b[off + 1]
      [] w = 2 -> IF b[off + 2] >= 128
                  THEN b[off + 1] + 256 * b[off + 2] - 65536
                  ELSE b[off + 1] + 256 * b[off + 2]
      [] w = 4 -> b[off + 1] + 256 * b[off + 2] + 65536 * b[off + 3]
                  + 16777216 * (IF b[off + 4] >= 128 THEN b[off + 4] - 256 ELSE b[off + 4])

\* the w bytes of the little-endian two's-complement encoding of x
BytesLE(x, w) == [i \in 1..w |-> (x \div (256 ^ (i - 1))) % 256]

\* the sample region of the input of pass 1: the declared bytes after the 44-byte prefix
SampleRegion == SubSeq(stream, DataOffset + 1, DataOffset + file.DataChunk.Size)

\* a File whose fields agree with each other
ValidFile(f) ==
    /\ f.Header.Id = RIFF_TAG /\ f.Header.Format = WAVE_TAG
    /\ f.FmtChunk.ID = fmt_TAG /\ f.DataChunk.ID = data_TAG
    /\ f.FmtChunk.BitsPerSample \in SupportedBits
    /\ f.FmtChunk.Channel >= 1
    /\ Len(f.DataChunk.Data) = f.FmtChunk.Channel
    /\ \A c \in 1..Len(f.DataChunk.Data) :
         Len(f.DataChunk.Data[c]) = Len(f.DataChunk.Data[1])
    /\ f.DataChunk.Size =
         Len(f.DataChunk.Data[1]) * f.FmtChunk.Channel * (f.FmtChunk.BitsPerSample \div 8)
    /\ f.Header.Size = 36 + f.DataChunk.Size

-----------------------------------------------------------------------------
(* The claims. *)

\* C1: after a successful Unmarshal of a well-formed stream (the declared
\* sample bytes are all there, the reader delivers in full) with
\* bitsPerSample w in {8,16,32} and C >= 1 channels, every channels[c][s]
\* is the signed little-endian integer formed by the w/8 bytes at offset
\* (s*C + c)*(w/8) of the sample region.
C1_FrameMajorSigned ==
    (/\ pass = 1
     /\ Returned
     /\ err = ""
     /\ FullReader
     /\ HeadersDecoded
     /\ Bits \in SupportedBits
     /\ Channels >= 1
     /\ Len(stream) >= DataOffset + file.DataChunk.Size)
    => \A c \in 1..Len(file.DataChunk.Data) :
         \A s \in 1..Len(file.DataChunk.Data[c]) :
           file.DataChunk.Data[c][s] =
             SignedLE(SampleRegion, ((s - 1) * Channels + (c - 1)) * (Bits \div 8),
                      Bits \div 8)

\* C2: round trip. For a valid File f with 16-bit samples that Unmarshal
\* returned without error, Unmarshal of the bytes Marshal(f) returned
\* succeeds and yields a File equal to f in every field and sample.
C2_RoundTrip16 ==
    (/\ pass = 2
     /\ Returned
     /\ origFrom = "Unmarshal"
     /\ origErr = ""
     /\ ValidFile(orig)
     /\ orig.FmtChunk.BitsPerSample = 16)
    => err = "" /\ file = orig

\* the error a chunk decoder reports for a short read
ShortReadError(step) ==
    CASE step = "Header.Unmarshal"    -> ErrHeaderRead
      [] step = "FmtChunk.Unmarshal"  -> ErrFmtRead
      [] step = "DataChunk.Unmarshal" -> ErrDataRead

\* C3: a chunk decoder whose read delivered fewer bytes than the chunk's
\* fixed prefix (12, 24, 8) fails with its short-read error, which is none
\* of the tag-mismatch errors; it never succeeds on a partly filled buffer.
C3_ShortReadRejected ==
    \A i \in 1..Len(log) :
      (log[i].step \in HeaderSteps /\ log[i].got < log[i].want)
      => log[i].err = ShortReadError(log[i].step)

\* C4: when the three chunk headers are valid (and the channel count is at
\* least 1, the reader sound) and bitsPerSample is none of 8, 16, 32,
\* Unmarshal returns the unsupported-sample-width error, whatever the
\* declared byte size, and the File carries no sample data.
C4_UnsupportedDepthFails ==
    (/\ pass = 1
     /\ pc \in {"Unmarshal.return", "ParseData.panic"}
     /\ FullReader
     /\ HeadersDecoded
     /\ Channels >= 1
     /\ Bits \notin SupportedBits)
    => /\ Returned
       /\ err = ErrBits
       /\ file.DataChunk.Data = << >>

\* C5: for a valid File with bitsPerSample w in {8,16,32}, the bytes Marshal
\* returns hold sample (s, c) as a little-endian integer of w/8 bytes at
\* offset 44 + (s*channelCount + c)*(w/8).
C5_EncodeWidthFollowsBits ==
    (/\ pc = "Marshal.return"
     /\ ValidFile(orig))
    => LET w == orig.FmtChunk.BitsPerSample \div 8
           C == orig.FmtChunk.Channel
       IN  \A c \in 1..C : \A s \in 1..Len(orig.DataChunk.Data[c]) :
             LET off == DataOffset + ((s - 1) * C + (c - 1)) * w
             IN  /\ off + w <= Len(out)
                 /\ SubSeq(out, off + 1, off + w) = BytesLE(orig.DataChunk.Data[c][s], w)

\* C6: for a File that Unmarshal returned without error, Marshal completes
\* without a runtime fault, emits 8 + (written Header.Size) bytes, and the
\* sample region after the 44-byte prefix is (written DataChunk.Size) long.
C6_EncodeSizesConsistent ==
    (/\ pc \in {"Marshal.return", "Marshal.panic"}
     /\ origFrom = "Unmarshal"
     /\ origErr = "")
    => /\ pc = "Marshal.return"
       /\ Len(out) = 8 + LittleEndianUint32(Slice(out, 4, 8))
       /\ Len(out) - DataOffset = LittleEndianUint32(Slice(out, 40, 44))

\* the step that issues the i-th Read of an Unmarshal
StepOrder(i) ==
    CASE i = 1 -> "Header.Unmarshal"
      [] i = 2 -> "FmtChunk.Unmarshal"
      [] i = 3 -> "DataChunk.Unmarshal"
      [] OTHER -> "ParseData"

RECURSIVE Consumed(_)
Consumed(i) == IF i = 0 THEN 0 ELSE log[i].got + Consumed(i - 1)

\* the input of pass 1 has four first bytes, they are not "RIFF", and the
\* first Read has been issued and reported no error
NotRIFFInput ==
    /\ pass = 1
    /\ Len(stream) >= 4
    /\ SubSeq(stream, 1, 4) # <<82, 73, 70, 70>>
    /\ Len(log) >= 1
    /\ log[1].rerr = ""

\* C7: Unmarshal reads in the order header, fmt, data header, samples; the
\* first step that fails is the last one to read (every byte consumed is
\* consumed by a logged Read, and only the last Read may carry an error),
\* and its error is the one returned. A stream whose first 4 bytes are not
\* "RIFF" (read without a reader error) fails with the RIFF-tag error after
\* that one Read of at most 12 bytes: no fmt, data-header or sample read
\* happens.
C7_FailFast ==
    /\ \A i \in 1..Len(log) : log[i].step = StepOrder(i)
    /\ \A i \in 1..(Len(log) - 1) : log[i].err = ""
    /\ pos = Consumed(Len(log))
    /\ (Len(log) >= 1 /\ log[Len(log)].err # "")
         => err = log[Len(log)].err /\ pc \notin HeaderSteps \union {"ParseData", "ParseData.loop"}
    /\ NotRIFFInput
         => /\ err = ErrNotRIFF
            /\ Len(log) = 1
            /\ pos <= HeaderLen
            /\ file.FmtChunk = ZeroFmtChunk
            /\ file.DataChunk = ZeroDataChunk

\* C7's case: a stream that does not start with "RIFF" has been rejected
C7_Witness ==
    /\ NotRIFFInput
    /\ Returned
    /\ err = ErrNotRIFF
    /\ Len(stream) >= DataOffset

\* C8: after a successful Unmarshal with bitsPerSample in {8,16,32} and
\* channelCount >= 1, Data has channelCount channels, each of
\* floor(declaredByteSize / (channelCount * (bitsPerSample/8))) samples;
\* with declaredByteSize = 0 every channel is empty, no sample Read was
\* issued, and decode neither fails nor faults.
C8_SamplePlaneShape ==
    /\ (Returned /\ err = "" /\ Bits \in SupportedBits /\ Channels >= 1)
         => /\ Len(file.DataChunk.Data) = Channels
            /\ \A c \in 1..Channels :
                 Len(file.DataChunk.Data[c]) =
                   file.DataChunk.Size \div (Channels * (Bits \div 8))
            /\ file.DataChunk.Size = 0
                 => /\ \A c \in 1..Channels : file.DataChunk.Data[c] = << >>
                    /\ Len(log) = 3
    /\ (/\ pc \in {"Unmarshal.return", "ParseData.panic"}
        /\ Len(log) = 3
        /\ \A i \in 1..3 : log[i].err = ""
        /\ Bits \in SupportedBits /\ Channels >= 1
        /\ file.DataChunk.Size = 0)
         => Returned /\ err = "" /\ Len(file.DataChunk.Data) = Channels

\* C8's case: the spec's example, 8 declared bytes, 2 channels, 16 bits
C8_Witness ==
    /\ Returned /\ err = ""
    /\ Bits = 16 /\ Channels = 2 /\ file.DataChunk.Size = 8
    /\ Len(file.DataChunk.Data) = 2
    /\ Len(file.DataChunk.Data[1]) = 2 /\ Len(file.DataChunk.Data[2]) = 2

\* C9's Files: at least one channel, Header.Size >= 36, the four magic tags
HeaderWritable(f) ==
    /\ Len(f.DataChunk.Data) >= 1
    /\ f.FmtChunk.Channel >= 1
    /\ f.Header.Size >= 36
    /\ f.Header.Id = RIFF_TAG /\ f.Header.Format = WAVE_TAG
    /\ f.FmtChunk.ID = fmt_TAG /\ f.DataChunk.ID = data_TAG

\* the 44 bytes of b hold f's fields at the offsets of the format's table,
\* tags big-endian, numbers little-endian
HeaderFieldsAt(b, f) ==
    /\ Len(b) >= DataOffset
    /\ SubSeq(b, 1, 4) = <<82, 73, 70, 70>>
    /\ SubSeq(b, 9, 12) = <<87, 65, 86, 69>>
    /\ SubSeq(b, 13, 16) = <<102, 109, 116, 32>>
    /\ SubSeq(b, 37, 40) = <<100, 97, 116, 97>>
    /\ SubSeq(b, 5, 8) = BytesLE(f.Header.Size, 4)
    /\ SubSeq(b, 17, 20) = BytesLE(f.FmtChunk.Size, 4)
    /\ SubSeq(b, 21, 22) = BytesLE(f.FmtChunk.AudioFormat, 2)
    /\ SubSeq(b, 23, 24) = BytesLE(f.FmtChunk.Channel, 2)
    /\ SubSeq(b, 25, 28) = BytesLE(f.FmtChunk.SampleRate, 4)
    /\ SubSeq(b, 29, 32) = BytesLE(f.FmtChunk.ByteRate, 4)
    /\ SubSeq(b, 33, 34) = BytesLE(f.FmtChunk.BlockAlign, 2)
    /\ SubSeq(b, 35, 36) = BytesLE(f.FmtChunk.BitsPerSample, 2)
    /\ SubSeq(b, 41, 44) = BytesLE(f.DataChunk.Size, 4)

\* the chunk decoders that have run over Marshal's output succeeded and
\* gave back the fields of the File that was marshalled
HeadersReadBack ==
    /\ \A i \in 1..Min(3, Len(log)) : log[i].err = "" /\ log[i].got = log[i].want
    /\ Len(log) >= 1 => file.Header = orig.Header
    /\ Len(log) >= 2 => file.FmtChunk = orig.FmtChunk
    /\ Len(log) >= 3 => /\ file.DataChunk.ID = orig.DataChunk.ID
                        /\ file.DataChunk.Size = orig.DataChunk.Size

C10_DecodeTotal == pc # "ParseData.panic"

=============================================================================
